---- MODULE Spec2Model ----
(***************************************************************************)
(* Model of radio_mirchi_backend:                                          *)
(*   - tests/test_flow.py: the audio player thread, the menu loop, mission *)
(*     creation, status polling and the WebSocket session;                 *)
(*   - app/services/llm_service.py: the three generate_* wrappers.         *)
(*                                                                         *)
(* The environment, as the code treats it:                                 *)
(*   - stream.write may raise (caught at lines 50 and 64 of test_flow.py); *)
(*     opening, starting, stopping and closing the stream succeed;         *)
(*   - websocket.recv and websocket.send raise ConnectionClosed once the   *)
(*     connection is closed, by the server or by leaving the async with;   *)
(*   - an HTTP call answers, raises aiohttp.ClientError, or raises another *)
(*     exception, which ends main;                                         *)
(*   - what the genai library raises derives from Exception.               *)
(***************************************************************************)
EXTENDS Integers, Sequences, FiniteSets, TLC

(* ------------------------------ bounds -------------------------------- *)
MaxChunkLen == 2        \* bytes in one chunk
MaxItems == 3           \* items put on the queue of the player taken alone
MaxRounds == 2          \* menu choices of one run of main
MaxPolls == 3           \* requests of one poll_mission_status call
MaxSends == 1           \* user_dialogue messages of one session
MaxAudio == 2           \* audio messages of one session
MaxInvocations == 2     \* generate_* invocations

Bytes == {0, 1}

VARIABLES
    audio_q,        \* queue.Queue: items put and not yet taken
    playerPc,       \* position of audio_player_thread
    audio_buffer,   \* the bytearray of audio_player_thread
    stream_calls,   \* calls made on the sd.OutputStream, in order
    write_failed,   \* some stream.write raised (and was caught)
    taken,          \* items audio_q.get() has returned, in order
    mainPc,         \* position of main
    rounds,         \* menu choices read so far
    lastChoice,     \* the menu choice being served
    mission_data_storage,   \* the module-level dict
    mission_id,     \* main's local
    response,       \* what the last POST /create_mission answered
    printed,        \* the last line the client printed
    pollLog,        \* outcomes of the requests of the last poll_mission_status call,
                    \* until main moves on to the WebSocket session
    pollRet,        \* what poll_mission_status returned
    polledId,       \* the mission_id poll_mission_status was called with
    uri,            \* the mission id in the WebSocket URI
    hwcPc,          \* position of handle_websocket_communication
    hwcRaised,      \* an exception reached its except clause
    conn,           \* the WebSocket connection
    senderPc,       \* the text_sender task
    receiverPc,     \* the server_receiver task
    sent,           \* user_dialogue messages sent on the WebSocket
    llmPc,          \* position of the running generate_* function
    llmFn,          \* which generate_* function runs
    llmCalls,       \* generate_content calls of this invocation
    llmResponse,    \* what generate_content answered
    llmResult,      \* the value returned
    llmError,       \* the type of the exception that left the function
    llmInvocations  \* generate_* invocations so far

playerVars == <<audio_q, playerPc, audio_buffer, stream_calls, write_failed, taken>>
mainVars == <<mainPc, rounds, lastChoice, mission_data_storage, mission_id, response>>
pollVars == <<pollLog, pollRet, polledId, uri>>
sessionVars == <<hwcPc, hwcRaised, conn, senderPc, receiverPc, sent>>
llmVars == <<llmPc, llmFn, llmCalls, llmResponse, llmResult, llmError, llmInvocations>>
clientVars == <<mainVars, printed, pollVars, sessionVars, llmVars>>

vars == <<playerVars, clientVars>>

(* ------------------------------ helpers ------------------------------- *)
SeqsUpTo(S, n) == UNION {[1..k -> S] : k \in 0..n}

Chunks == SeqsUpTo(Bytes, MaxChunkLen)

ChunkItem(c) == [kind |-> "chunk", data |-> c]
NoneItem == [kind |-> "None", data |-> <<>>]
Items == {ChunkItem(c) : c \in Chunks} \cup {NoneItem}

Call(op, data) == [op |-> op, data |-> data]

\* mutant of line 54: the buffer is emptied after a write
SuffixDropsRemainder(s, n) == <<>>

\* bytearray slices: lines 46 and 54
Prefix(s, n) == SubSeq(s, 1, n)
Suffix(s, n) == SubSeq(s, n + 1, Len(s))

\* mutants of line 43: the whole buffer; whole 4-byte groups only
PlayableSizeWholeBuffer(buf) == Len(buf)
PlayableSizeFourBytes(buf) == (Len(buf) \div 4) * 4

\* line 43: playable_size = (len(audio_buffer) // 2) * 2
PlayableSize(buf) == (Len(buf) \div 2) * 2

\* lines 59-60: pad with a zero byte if the buffer has an odd number of bytes
PadOdd(buf) == IF Len(buf) % 2 # 0 THEN Append(buf, 0) ELSE buf

(* --------------------------- audio_player_thread ----------------------- *)
\* lines 31-33: open and start the stream, empty buffer
PlayerStart ==
    /\ playerPc = "start"
    /\ stream_calls' = Append(stream_calls, Call("start", <<>>))
    /\ audio_buffer' = <<>>
    /\ playerPc' = "loop"
    /\ write_failed' = FALSE
    /\ UNCHANGED <<audio_q, taken, clientVars>>

\* lines 36-54, chunk is not None: extend, write the even prefix inside
\* try/except (ok = FALSE is a write that raised), keep the remainder
PlayerChunk(ok) ==
    /\ playerPc = "loop"
    /\ audio_q # <<>>
    /\ Head(audio_q).kind = "chunk"
    /\ LET buf == audio_buffer \o Head(audio_q).data
           playable_size == PlayableSize(buf)
       IN  IF playable_size > 0
           THEN /\ stream_calls' = Append(stream_calls,
                                          Call("write", Prefix(buf, playable_size)))
                /\ write_failed' = (write_failed \/ ~ok)
                /\ audio_buffer' = Suffix(buf, playable_size)
           ELSE /\ ok
                /\ stream_calls' = stream_calls
                /\ write_failed' = write_failed
                /\ audio_buffer' = buf
    /\ taken' = Append(taken, Head(audio_q))
    /\ audio_q' = Tail(audio_q)
    /\ UNCHANGED <<playerPc, clientVars>>

\* mutant of lines 37-38: continue instead of break
PlayerSentinelContinues ==
    /\ playerPc = "loop"
    /\ audio_q # <<>>
    /\ Head(audio_q).kind = "None"
    /\ taken' = Append(taken, Head(audio_q))
    /\ audio_q' = Tail(audio_q)
    /\ UNCHANGED <<playerPc, audio_buffer, stream_calls, write_failed, clientVars>>

\* lines 36-38: chunk is None, leave the loop
PlayerSentinel ==
    /\ playerPc = "loop"
    /\ audio_q # <<>>
    /\ Head(audio_q).kind = "None"
    /\ taken' = Append(taken, Head(audio_q))
    /\ audio_q' = Tail(audio_q)
    /\ playerPc' = "flush"
    /\ UNCHANGED <<audio_buffer, stream_calls, write_failed, clientVars>>

\* lines 57-65: play what remains, padded to a whole sample
PlayerFlush(ok) ==
    /\ playerPc = "flush"
    /\ IF Len(audio_buffer) > 0
       THEN /\ audio_buffer' = PadOdd(audio_buffer)
            /\ stream_calls' = Append(stream_calls,
                                      Call("write", PadOdd(audio_buffer)))
            /\ write_failed' = (write_failed \/ ~ok)
       ELSE /\ ok
            /\ UNCHANGED <<audio_buffer, stream_calls, write_failed>>
    /\ playerPc' = "stop"
    /\ UNCHANGED <<audio_q, taken, clientVars>>

\* line 67
PlayerStop ==
    /\ playerPc = "stop"
    /\ stream_calls' = Append(stream_calls, Call("stop", <<>>))
    /\ playerPc' = "close"
    /\ UNCHANGED <<audio_q, audio_buffer, write_failed, taken, clientVars>>

\* lines 68-69
PlayerClose ==
    /\ playerPc = "close"
    /\ stream_calls' = Append(stream_calls, Call("close", <<>>))
    /\ playerPc' = "done"
    /\ UNCHANGED <<audio_q, audio_buffer, write_failed, taken, clientVars>>

\* audio_q.put(item) by whoever holds the queue (lines 134 and 152)
ProducerPut(item) ==
    /\ Len(taken) + Len(audio_q) < MaxItems
    /\ audio_q' = Append(audio_q, item)
    /\ UNCHANGED <<playerPc, audio_buffer, stream_calls, write_failed, taken, clientVars>>

(* ------------------------- Python values in the client ----------------- *)
\* None, distinct from every str (in particular from the str "None")
PyNone == "<None>"

\* str(x)
Str(v) == IF v = PyNone THEN "None" ELSE v

\* bool(x) of a str or None
Truthy(v) == v # PyNone /\ v # ""

\* dict.get(key): None for a key that is absent (or null in the JSON)
Get(d, key) == d[key]

\* str.lower() on the inputs the user types
Lower(t) == CASE t = "EXIT" -> "exit"
              [] t = "Exit" -> "exit"
              [] OTHER -> t

MissionKeys == {"_id", "id"}
ServerIds == {PyNone, "", "m1"}
MissionData == [MissionKeys -> ServerIds]
NoData == [k \in MissionKeys |-> PyNone]
EmptyStorage == [has |-> FALSE, current_mission |-> NoData]

CreateResponses ==
    {[status |-> "ok", data |-> d] : d \in MissionData}
        \cup {[status |-> st, data |-> NoData] : st \in {"client_error", "other_error"}}

TypedIds == {"", "m2"}
PollOutcomes == {"stage1", "stage2", PyNone, "client_error", "other_error"}
UserInputs == {"hi", "exit", "EXIT"}
WireChunks == {<<1>>}
TextMessages == {"listeners", "other", "invalid"}

(* ------------------------------ create_mission ------------------------- *)
\* line 83: if mission_id := str(mission_data.get("_id"))
CreateHasId(data) == Truthy(Str(Get(data, "_id")))

\* lines 77-90: the storage after the call
CreateStorage(storage, resp) ==
    IF resp.status = "ok" /\ CreateHasId(resp.data)
    THEN [has |-> TRUE, current_mission |-> resp.data]
    ELSE storage

\* lines 77-90: what the call prints last
CreatePrinted(resp) ==
    CASE resp.status = "client_error" -> "An error occurred"
      [] resp.status = "other_error" -> "Traceback"
      [] resp.status = "ok" /\ CreateHasId(resp.data) -> "Mission created successfully!"
      [] OTHER -> "Error: Mission ID not found."

(* ---------------------------------- main ------------------------------- *)
\* lines 174-175: option 1 takes the ID of the stored mission
Option1Id(storage) ==
    IF storage.has THEN Str(Get(storage.current_mission, "_id")) ELSE PyNone

\* lines 177-180: option 2 takes the ID of the stored mission
Option2Id(storage) ==
    IF storage.has THEN Get(storage.current_mission, "id") ELSE PyNone

\* lines 191-192: poll_mission_status is entered when mission_id is truthy
AfterChoice(id) ==
    IF Truthy(id)
    THEN /\ mainPc' = "poll"
         /\ polledId' = id
         /\ pollLog' = <<>>
         /\ pollRet' = "none"
         /\ UNCHANGED uri
    ELSE /\ mainPc' = "menu"
         /\ UNCHANGED pollVars

AtMenu(choice) ==
    /\ mainPc = "menu"
    /\ rounds < MaxRounds
    /\ rounds' = rounds + 1
    /\ lastChoice' = choice

\* lines 172-175 with create_mission (72-90)
Choice1(resp) ==
    /\ AtMenu("1")
    /\ mission_data_storage' = CreateStorage(mission_data_storage, resp)
    /\ printed' = CreatePrinted(resp)
    /\ response' = resp
    /\ IF resp.status = "other_error"
       THEN /\ mainPc' = "crashed"
            /\ mission_id' = PyNone
            /\ UNCHANGED pollVars
       ELSE /\ mission_id' = Option1Id(mission_data_storage')
            /\ AfterChoice(mission_id')
    /\ UNCHANGED <<playerVars, sessionVars, llmVars>>

\* lines 176-180
Choice2 ==
    /\ AtMenu("2")
    /\ mission_id' = Option2Id(mission_data_storage)
    /\ printed' = IF mission_data_storage.has THEN printed ELSE "No mission created yet."
    /\ AfterChoice(mission_id')
    /\ UNCHANGED <<mission_data_storage, response, playerVars, sessionVars, llmVars>>

\* lines 181-184
Choice3(typed) ==
    /\ AtMenu("3")
    /\ mission_id' = Str(typed)
    /\ AfterChoice(mission_id')
    /\ UNCHANGED <<mission_data_storage, response, printed, playerVars, sessionVars, llmVars>>

\* lines 185-186
Choice4 ==
    /\ AtMenu("4")
    /\ mainPc' = "exited"
    /\ mission_id' = PyNone
    /\ UNCHANGED <<mission_data_storage, response, printed, pollVars, playerVars,
                   sessionVars, llmVars>>

\* lines 187-189
ChoiceInvalid ==
    /\ AtMenu("x")
    /\ mainPc' = "menu"
    /\ mission_id' = PyNone
    /\ printed' = "Invalid choice."
    /\ UNCHANGED <<mission_data_storage, response, pollVars, playerVars, sessionVars,
                   llmVars>>

(* ---------------------------- poll_mission_status ---------------------- *)
\* mutant of line 102: any successful answer counts as ready
PollResultAnyStatus(outcome) ==
    CASE outcome = "client_error" -> "False"
      [] outcome = "other_error" -> "raised"
      [] OTHER -> "True"

\* lines 96-108: what one request does to the call: "True" and "False" are
\* returned, "raised" is an exception that is no ClientError, "none" polls on
PollResult(outcome) ==
    CASE outcome = "stage2" -> "True"
      [] outcome = "client_error" -> "False"
      [] outcome = "other_error" -> "raised"
      [] OTHER -> "none"

\* one iteration of the loop of lines 95-108, and lines 192-194 of main when
\* the call returns
Poll(outcome) ==
    /\ mainPc = "poll"
    /\ Len(pollLog) < MaxPolls
    /\ pollLog' = Append(pollLog, outcome)
    /\ pollRet' = PollResult(outcome)
    /\ printed' = IF outcome \in {"client_error", "other_error"}
                  THEN "An error occurred while polling"
                  ELSE Str(outcome)
    /\ mainPc' = CASE pollRet' = "True" -> "ws"
                   [] pollRet' = "False" -> "menu"
                   [] pollRet' = "raised" -> "crashed"
                   [] OTHER -> "poll"
    /\ uri' = IF pollRet' = "True" THEN mission_id ELSE uri
    /\ UNCHANGED <<polledId, rounds, lastChoice, mission_data_storage, mission_id,
                   response, playerVars, sessionVars, llmVars>>

(* ----------------------- handle_websocket_communication ---------------- *)
\* lines 112-114: a fresh queue and a started player thread
HwcStart ==
    /\ mainPc = "ws"
    /\ hwcPc = "idle"
    /\ hwcPc' = "connect"
    /\ audio_q' = <<>>
    /\ playerPc' = "start"
    /\ audio_buffer' = <<>>
    /\ stream_calls' = <<>>
    /\ write_failed' = FALSE
    /\ taken' = <<>>
    /\ pollLog' = <<>>
    /\ UNCHANGED <<hwcRaised, conn, senderPc, receiverPc, sent, mainVars, printed,
                   pollRet, polledId, uri, llmVars>>

\* lines 117-145: the connection opens and both tasks are created, or
\* websockets.connect raises into the except clause of line 149
Connect(ok) ==
    /\ hwcPc = "connect"
    /\ IF ok
       THEN /\ conn' = "open"
            /\ senderPc' = "run"
            /\ receiverPc' = "run"
            /\ hwcPc' = "gather"
            /\ printed' = "[SUCCESS] WebSocket connection established."
            /\ UNCHANGED hwcRaised
       ELSE /\ hwcRaised' = TRUE
            /\ hwcPc' = "finally"
            /\ printed' = "[ERROR] An unexpected error occurred"
            /\ UNCHANGED <<conn, senderPc, receiverPc>>
    /\ UNCHANGED <<sent, mainVars, pollVars, playerVars, llmVars>>

\* tasks run while the coroutine awaits: in gather (147) and while the
\* connection's context manager closes it (117)
TasksRun == hwcPc \in {"gather", "aexit"}

\* lines 122-126: one turn of text_sender; send raises on a closed connection
SenderInput(text) ==
    /\ TasksRun
    /\ senderPc = "run"
    /\ IF Lower(text) = "exit"
       THEN senderPc' = "done" /\ UNCHANGED sent
       ELSE IF conn = "open"
            THEN /\ Len(sent) < MaxSends
                 /\ sent' = Append(sent, text)
                 /\ UNCHANGED senderPc
            ELSE senderPc' = "raised" /\ UNCHANGED sent
    /\ UNCHANGED <<hwcPc, hwcRaised, conn, receiverPc, mainVars, printed, pollVars,
                   playerVars, llmVars>>

\* line 123: input() raises (end of input)
SenderInputFails ==
    /\ TasksRun
    /\ senderPc = "run"
    /\ senderPc' = "raised"
    /\ UNCHANGED <<hwcPc, hwcRaised, conn, receiverPc, sent, mainVars, printed,
                   pollVars, playerVars, llmVars>>

\* lines 132-134: a bytes message goes to the audio queue
RecvAudio(chunk) ==
    /\ TasksRun
    /\ receiverPc = "run"
    /\ conn = "open"
    /\ Len(taken) + Len(audio_q) < MaxAudio
    /\ audio_q' = Append(audio_q, ChunkItem(chunk))
    /\ UNCHANGED <<playerPc, audio_buffer, stream_calls, write_failed, taken, clientVars>>

\* lines 135-138: a str message; json.loads or the membership test raises
\* on "invalid", and only ConnectionClosed is caught
RecvText(msg) ==
    /\ TasksRun
    /\ receiverPc = "run"
    /\ conn = "open"
    /\ CASE msg = "listeners" -> printed' = "[LISTENERS] Awakened" /\ UNCHANGED receiverPc
         [] msg = "invalid" -> receiverPc' = "raised" /\ UNCHANGED printed
         [] OTHER -> printed' = "" /\ UNCHANGED receiverPc
    /\ UNCHANGED <<hwcPc, hwcRaised, conn, senderPc, sent, mainVars, pollVars, playerVars,
                   llmVars>>

\* lines 140-142: recv raises ConnectionClosed
RecvClosed ==
    /\ TasksRun
    /\ receiverPc = "run"
    /\ conn # "open"
    /\ receiverPc' = "done"
    /\ printed' = "[INFO] WebSocket connection closed by the server."
    /\ UNCHANGED <<hwcPc, hwcRaised, conn, senderPc, sent, mainVars, pollVars, playerVars,
                   llmVars>>

\* the server closes the connection
ServerClose ==
    /\ conn = "open"
    /\ conn' = "server_closed"
    /\ UNCHANGED <<hwcPc, hwcRaised, senderPc, receiverPc, sent, mainVars, printed,
                   pollVars, playerVars, llmVars>>

\* mutant of line 147: a wait that returns when the first task completes
GatherFirstCompleted(s, r) == s # "run" \/ r # "run"

\* line 147: gather returns when both tasks are done, and raises as soon as
\* one of them has raised
GatherReady(s, r) == (s = "done" /\ r = "done") \/ s = "raised" \/ r = "raised"

Gather ==
    /\ hwcPc = "gather"
    /\ GatherReady(senderPc, receiverPc)
    /\ hwcRaised' = (senderPc = "raised" \/ receiverPc = "raised")
    /\ hwcPc' = "aexit"
    /\ UNCHANGED <<conn, senderPc, receiverPc, sent, mainVars, printed, pollVars,
                   playerVars, llmVars>>

\* line 117, leaving the async with: the connection is closed; line 149-150
AExit ==
    /\ hwcPc = "aexit"
    /\ conn' = IF conn = "open" THEN "client_closed" ELSE conn
    /\ printed' = IF hwcRaised THEN "[ERROR] An unexpected error occurred" ELSE printed
    /\ hwcPc' = "finally"
    /\ UNCHANGED <<hwcRaised, senderPc, receiverPc, sent, mainVars, pollVars, playerVars,
                   llmVars>>

\* mutant of line 152: the put at the end of the try body, skipped by a raise
FinallyPutUnlessRaised ==
    /\ hwcPc = "finally"
    /\ audio_q' = IF hwcRaised THEN audio_q ELSE Append(audio_q, NoneItem)
    /\ hwcPc' = "join"
    /\ UNCHANGED <<playerPc, audio_buffer, stream_calls, write_failed, taken>>
    /\ UNCHANGED <<hwcRaised, conn, senderPc, receiverPc, sent, mainVars, printed,
                   pollVars, llmVars>>

\* line 152
FinallyPut ==
    /\ hwcPc = "finally"
    /\ audio_q' = Append(audio_q, NoneItem)
    /\ hwcPc' = "join"
    /\ UNCHANGED <<playerPc, audio_buffer, stream_calls, write_failed, taken>>
    /\ UNCHANGED <<hwcRaised, conn, senderPc, receiverPc, sent, mainVars, printed,
                   pollVars, llmVars>>

\* lines 153-154: player.join() returns once the thread has ended
Join ==
    /\ hwcPc = "join"
    /\ playerPc = "done"
    /\ hwcPc' = "returned"
    /\ printed' = "[INFO] Client shutdown complete."
    /\ UNCHANGED <<hwcRaised, conn, senderPc, receiverPc, sent, mainVars, pollVars,
                   playerVars, llmVars>>

\* line 194 returns to the menu loop of line 162; the session's objects are gone
BackToMenu ==
    /\ mainPc = "ws"
    /\ hwcPc = "returned"
    /\ mainPc' = "menu"
    /\ hwcPc' = "idle"
    /\ hwcRaised' = FALSE
    /\ conn' = "none"
    /\ senderPc' = "none"
    /\ receiverPc' = "none"
    /\ sent' = <<>>
    /\ audio_q' = <<>>
    /\ playerPc' = "none"
    /\ audio_buffer' = <<>>
    /\ stream_calls' = <<>>
    /\ write_failed' = FALSE
    /\ taken' = <<>>
    /\ UNCHANGED <<rounds, lastChoice, mission_data_storage, mission_id, response,
                   printed, pollVars, llmVars>>

(* --------------------------- llm_service.py ---------------------------- *)
LlmFunctions ==
    {"generate_initial_propaganda", "generate_unified_dialogue_prompt", "generate_dialogue"}

\* the schema type each function asks for (lines 56 and 117; none on line 89)
ExpectedSchema(fn) ==
    CASE fn = "generate_initial_propaganda" -> "PropagandaGenerationResult"
      [] fn = "generate_dialogue" -> "DialogueTurn"
      [] OTHER -> PyNone

\* response.parsed: an instance of a schema type, None, or no such attribute
ParsedValues == {"PropagandaGenerationResult", "DialogueTurn", PyNone, "<no attribute>"}
\* response.text: a str, None, or a property that raises
TextValues == {"briefing", "", PyNone, "<raises>"}
\* what the library calls raise: subclasses of Exception
LibraryErrors == {"APIError", "ValueError"}
ExceptionSubclasses == LibraryErrors \cup {"LLMServiceError"}

NoResponse == [raises |-> PyNone, parsed |-> PyNone, text |-> PyNone]
LlmResponses ==
    {[raises |-> PyNone, parsed |-> pv, text |-> tv] : pv \in ParsedValues, tv \in TextValues}
        \cup {[raises |-> e, parsed |-> PyNone, text |-> PyNone] : e \in LibraryErrors}

\* mutant of line 66: an except clause that names one library error only
ExceptClauseNarrow(raised) ==
    IF raised = "APIError" THEN "LLMServiceError" ELSE raised

\* lines 66-67, 96-97, 127-128: except Exception as e: raise LLMServiceError(...)
ExceptClause(raised) ==
    IF raised \in ExceptionSubclasses THEN "LLMServiceError" ELSE raised

\* lines 63-65, 93-95, 124-126: what the try body does with the answer:
\* the value it returns, or the exception it raises
TryBody(fn, resp) ==
    IF resp.raises # PyNone
    THEN [raises |-> resp.raises, value |-> PyNone]
    ELSE IF fn = "generate_unified_dialogue_prompt"
         THEN CASE resp.text = "<raises>" -> [raises |-> "ValueError", value |-> PyNone]
                [] Truthy(resp.text) -> [raises |-> PyNone, value |-> resp.text]
                [] OTHER -> [raises |-> "LLMServiceError", value |-> PyNone]
         ELSE IF resp.parsed # "<no attribute>" /\ resp.parsed = ExpectedSchema(fn)
              THEN [raises |-> PyNone,
                    value |-> IF fn = "generate_dialogue"
                              THEN "DialogueTurn.dialogues" ELSE resp.parsed]
              ELSE [raises |-> "LLMServiceError", value |-> PyNone]

\* a generate_* function is called (lines 35, 69, 99) and builds its prompt
LlmCall(fn) ==
    /\ llmPc \in {"idle", "returned", "raised"}
    /\ llmInvocations < MaxInvocations
    /\ llmInvocations' = llmInvocations + 1
    /\ llmFn' = fn
    /\ llmPc' = "get_client"
    /\ llmCalls' = 0
    /\ llmResponse' = NoResponse
    /\ llmResult' = PyNone
    /\ llmError' = PyNone
    /\ UNCHANGED <<playerVars, mainVars, printed, pollVars, sessionVars>>

\* lines 53, 88, 114: _get_genai_client() returns or raises
LlmGetClient(raised) ==
    /\ llmPc = "get_client"
    /\ IF raised = PyNone
       THEN llmPc' = "generate" /\ UNCHANGED llmError
       ELSE llmPc' = "raised" /\ llmError' = ExceptClause(raised)
    /\ UNCHANGED <<llmFn, llmCalls, llmResponse, llmResult, llmInvocations>>
    /\ UNCHANGED <<playerVars, mainVars, printed, pollVars, sessionVars>>

\* lines 58-67, 89-97, 119-128: the one generate_content call and the check
\* of its answer
LlmGenerate(resp) ==
    /\ llmPc = "generate"
    /\ llmCalls' = llmCalls + 1
    /\ llmResponse' = resp
    /\ LET out == TryBody(llmFn, resp)
       IN  IF out.raises = PyNone
           THEN /\ llmPc' = "returned"
                /\ llmResult' = out.value
                /\ UNCHANGED llmError
           ELSE /\ llmPc' = "raised"
                /\ llmError' = ExceptClause(out.raises)
                /\ UNCHANGED llmResult
    /\ UNCHANGED <<llmFn, llmInvocations>>
    /\ UNCHANGED <<playerVars, mainVars, printed, pollVars, sessionVars>>

LlmIdle ==
    /\ llmPc = "idle"
    /\ llmFn = PyNone
    /\ llmCalls = 0
    /\ llmResponse = NoResponse
    /\ llmResult = PyNone
    /\ llmError = PyNone
    /\ llmInvocations = 0

\* line 19 and the start of main
ClientIdle ==
    /\ mainPc = "menu"
    /\ rounds = 0
    /\ lastChoice = "0"
    /\ mission_data_storage = EmptyStorage
    /\ mission_id = PyNone
    /\ response = [status |-> "none", data |-> NoData]
    /\ printed = ""
    /\ pollLog = <<>>
    /\ pollRet = "none"
    /\ polledId = PyNone
    /\ uri = PyNone
    /\ hwcPc = "idle"
    /\ hwcRaised = FALSE
    /\ conn = "none"
    /\ senderPc = "none"
    /\ receiverPc = "none"
    /\ sent = <<>>
    /\ LlmIdle

Init ==
    /\ ClientIdle
    /\ audio_q = <<>>
    /\ playerPc = "none"
    /\ audio_buffer = <<>>
    /\ stream_calls = <<>>
    /\ write_failed = FALSE
    /\ taken = <<>>

Next ==
    \/ \E resp \in CreateResponses : Choice1(resp)
    \/ Choice2
    \/ \E typed \in TypedIds : Choice3(typed)
    \/ Choice4
    \/ ChoiceInvalid
    \/ \E outcome \in PollOutcomes : Poll(outcome)
    \/ HwcStart
    \/ \E ok \in BOOLEAN : Connect(ok)
    \/ \E text \in UserInputs : SenderInput(text)
    \/ SenderInputFails
    \/ \E chunk \in WireChunks : RecvAudio(chunk)
    \/ \E msg \in TextMessages : RecvText(msg)
    \/ RecvClosed
    \/ ServerClose
    \/ Gather
    \/ AExit
    \/ FinallyPut
    \/ Join
    \/ BackToMenu
    \/ PlayerStart
    \/ \E ok \in BOOLEAN : PlayerChunk(ok)
    \/ PlayerSentinel
    \/ \E ok \in BOOLEAN : PlayerFlush(ok)
    \/ PlayerStop
    \/ PlayerClose

Spec == Init /\ [][Next]_vars

NextLlm ==
    \/ \E fn \in LlmFunctions : LlmCall(fn)
    \/ \E raised \in LibraryErrors \cup {PyNone} : LlmGetClient(raised)
    \/ \E resp \in LlmResponses : LlmGenerate(resp)

SpecLlm == Init /\ [][NextLlm]_vars

(* ------------------- one WebSocket session on its own ----------------- *)
\* main about to call handle_websocket_communication (line 194): the state
\* after option 3 with the ID "m2" and one poll that answered "stage2"
InitSession ==
    /\ mainPc = "ws"
    /\ rounds = 1
    /\ lastChoice = "3"
    /\ mission_data_storage = EmptyStorage
    /\ mission_id = "m2"
    /\ response = [status |-> "none", data |-> NoData]
    /\ printed = "stage2"
    /\ pollLog = <<"stage2">>
    /\ pollRet = "True"
    /\ polledId = "m2"
    /\ uri = "m2"
    /\ hwcPc = "idle"
    /\ hwcRaised = FALSE
    /\ conn = "none"
    /\ senderPc = "none"
    /\ receiverPc = "none"
    /\ sent = <<>>
    /\ LlmIdle
    /\ audio_q = <<>>
    /\ playerPc = "none"
    /\ audio_buffer = <<>>
    /\ stream_calls = <<>>
    /\ write_failed = FALSE
    /\ taken = <<>>

NextSession ==
    \/ HwcStart
    \/ \E ok \in BOOLEAN : Connect(ok)
    \/ \E text \in UserInputs : SenderInput(text)
    \/ SenderInputFails
    \/ \E chunk \in WireChunks : RecvAudio(chunk)
    \/ \E msg \in TextMessages : RecvText(msg)
    \/ RecvClosed
    \/ ServerClose
    \/ Gather
    \/ AExit
    \/ FinallyPut
    \/ Join
    \/ BackToMenu
    \/ PlayerStart
    \/ \E ok \in BOOLEAN : PlayerChunk(ok)
    \/ PlayerSentinel
    \/ \E ok \in BOOLEAN : PlayerFlush(ok)
    \/ PlayerStop
    \/ PlayerClose

SpecSession == InitSession /\ [][NextSession]_vars

\* the player is an OS thread and runs whenever it can; the finally clause
\* runs synchronously and join returns once the thread has ended
FairSpecSession ==
    /\ SpecSession
    /\ WF_vars(PlayerStart)
    /\ WF_vars(\E ok \in BOOLEAN : PlayerChunk(ok))
    /\ WF_vars(PlayerSentinel)
    /\ WF_vars(\E ok \in BOOLEAN : PlayerFlush(ok))
    /\ WF_vars(PlayerStop)
    /\ WF_vars(PlayerClose)
    /\ WF_vars(FinallyPut)
    /\ WF_vars(Join)

(* --------------------- the player against any producer ----------------- *)
InitPlayer ==
    /\ ClientIdle
    /\ audio_q = <<>>
    /\ playerPc = "start"
    /\ audio_buffer = <<>>
    /\ stream_calls = <<>>
    /\ write_failed = FALSE
    /\ taken = <<>>

NextPlayer ==
    \/ PlayerStart
    \/ \E ok \in BOOLEAN : PlayerChunk(ok)
    \/ PlayerSentinel
    \/ \E ok \in BOOLEAN : PlayerFlush(ok)
    \/ PlayerStop
    \/ PlayerClose
    \/ \E item \in Items : ProducerPut(item)

SpecPlayer == InitPlayer /\ [][NextPlayer]_vars

\* the thread is scheduled fairly by the OS; audio_q.get() blocks on an empty queue
FairSpecPlayer ==
    /\ SpecPlayer
    /\ WF_vars(PlayerStart)
    /\ WF_vars(\E ok \in BOOLEAN : PlayerChunk(ok))
    /\ WF_vars(PlayerSentinel)
    /\ WF_vars(\E ok \in BOOLEAN : PlayerFlush(ok))
    /\ WF_vars(PlayerStop)
    /\ WF_vars(PlayerClose)

(* ------------------------ properties of the player --------------------- *)
RECURSIVE Flatten(_)
Flatten(ss) == IF ss = <<>> THEN <<>> ELSE Head(ss) \o Flatten(Tail(ss))

RECURSIVE DataOf(_)
DataOf(cs) == IF cs = <<>> THEN <<>> ELSE <<Head(cs).data>> \o DataOf(Tail(cs))

IsWrite(c) == c.op = "write"
IsChunk(i) == i.kind = "chunk"
Writes == SelectSeq(stream_calls, IsWrite)
WrittenBytes == Flatten(DataOf(Writes))
TakenChunks == SelectSeq(taken, IsChunk)
ReceivedBytes == Flatten(DataOf(TakenChunks))
SentinelTaken == \E i \in 1..Len(taken) : taken[i].kind = "None"
NoWriteFailed == ~write_failed
CountOp(op) == Cardinality({i \in 1..Len(stream_calls) : stream_calls[i].op = op})

\* C1: every write to the output stream carries a positive, even number of
\* bytes, whatever the lengths (odd, empty) of the chunks taken from the queue.
C1_WritesWholeSamples ==
    \A i \in 1..Len(stream_calls) :
        stream_calls[i].op = "write" =>
            /\ Len(stream_calls[i].data) > 0
            /\ Len(stream_calls[i].data) % 2 = 0

C1_Witness ==
    /\ Len(Writes) >= 1
    /\ \E i \in 1..Len(taken) : IsChunk(taken[i]) /\ Len(taken[i].data) % 2 = 1
    /\ \E i \in 1..Len(taken) : IsChunk(taken[i]) /\ Len(taken[i].data) = 0

\* C2: once the final flush is over and no write has failed, the bytes written
\* are exactly the bytes received before the None sentinel, in order, followed
\* by one zero byte if their number is odd and by nothing otherwise.
C2_WrittenEqualsReceived ==
    (playerPc \in {"stop", "close", "done"} /\ NoWriteFailed) =>
        WrittenBytes = ReceivedBytes \o
            (IF Len(ReceivedBytes) % 2 = 1 THEN <<0>> ELSE <<>>)

C2_Witness ==
    /\ playerPc = "done"
    /\ NoWriteFailed
    /\ Len(TakenChunks) >= 2
    /\ Len(ReceivedBytes) % 2 = 1
    /\ Len(ReceivedBytes) >= 3

\* C3: between queue reads the retained buffer holds (bytes received so far
\* mod 2) bytes, and when it holds one it is the last byte received.
C3_RemainderIsLastByte ==
    playerPc = "loop" =>
        /\ Len(audio_buffer) = Len(ReceivedBytes) % 2
        /\ Len(audio_buffer) = 1 =>
               audio_buffer[1] = ReceivedBytes[Len(ReceivedBytes)]

C3_Witness ==
    /\ playerPc = "loop"
    /\ Len(TakenChunks) >= 2
    /\ Len(ReceivedBytes) = 3
    /\ Len(audio_buffer) = 1
    /\ ReceivedBytes[2] # ReceivedBytes[3]

\* the stream calls made once the sentinel is taken
C4_ShutdownOrder ==
    /\ CountOp("stop") <= 1
    /\ CountOp("close") <= 1
    \* nothing is written once the stream is stopped or closed, and close
    \* never precedes stop
    /\ \A i, j \in 1..Len(stream_calls) :
           (i < j /\ stream_calls[i].op \in {"stop", "close"}) =>
               stream_calls[j].op = "close" /\ stream_calls[i].op = "stop"
    \* the remainder is flushed right before the stop
    /\ \A i \in 1..Len(stream_calls) :
           (stream_calls[i].op = "stop" /\ Len(ReceivedBytes) % 2 = 1) =>
               /\ i > 1
               /\ stream_calls[i - 1].op = "write"
               /\ stream_calls[i - 1].data = <<ReceivedBytes[Len(ReceivedBytes)], 0>>
    \* stop and close happen only after the sentinel
    /\ CountOp("stop") > 0 => SentinelTaken
    \* nothing is taken from the queue after the sentinel
    /\ \A i \in 1..Len(taken) : taken[i].kind = "None" => i = Len(taken)
    /\ playerPc = "done" => CountOp("stop") = 1 /\ CountOp("close") = 1

\* C4: when the None sentinel is taken the remainder is flushed before the
\* stream is stopped and closed, the stream is stopped and closed exactly once
\* and the thread terminates; nothing is written after the stop and nothing is
\* taken from the queue after the sentinel.
C4_FlushStopCloseOnce ==
    /\ []C4_ShutdownOrder
    /\ (SentinelTaken ~> playerPc = "done")

C4_Witness ==
    /\ playerPc = "done"
    /\ Len(ReceivedBytes) % 2 = 1
    /\ audio_q # <<>>
    /\ Len(Writes) >= 1

(* ---------------------- properties of llm_service.py ------------------- *)
LlmValid(fn, resp) ==
    /\ resp.raises = PyNone
    /\ IF fn = "generate_unified_dialogue_prompt"
       THEN resp.text \notin {"", PyNone, "<raises>"}
       ELSE resp.parsed = ExpectedSchema(fn)

\* C5: a generate_* invocation ends in one of two ways: it returns a valid
\* result (parsed of the expected schema type, or a non-empty text), or it
\* raises LLMServiceError; a failing client construction, a failing
\* generate_content and an invalid or empty answer all surface as
\* LLMServiceError, and generate_content is called at most once.
C5_ValidOrServiceError ==
    /\ llmCalls <= 1
    /\ llmPc = "returned" =>
           /\ llmCalls = 1
           /\ LlmValid(llmFn, llmResponse)
           /\ llmError = PyNone
           /\ llmResult = IF llmFn = "generate_unified_dialogue_prompt" THEN llmResponse.text
                          ELSE IF llmFn = "generate_dialogue" THEN "DialogueTurn.dialogues"
                          ELSE llmResponse.parsed
    /\ llmPc = "raised" =>
           /\ llmError = "LLMServiceError"
           /\ llmResult = PyNone
    /\ (llmPc \in {"returned", "raised"} /\ llmCalls = 1 /\ ~LlmValid(llmFn, llmResponse)) =>
           llmPc = "raised"

C5_Witness ==
    /\ llmPc = "raised"
    /\ llmFn = "generate_dialogue"
    /\ llmCalls = 1
    /\ llmResponse.raises = PyNone
    /\ llmResponse.parsed = "PropagandaGenerationResult"
    /\ llmInvocations = 2

(* ------------------------ properties of the client --------------------- *)
Benign(outcome) == outcome \notin {"stage2", "client_error", "other_error"}

\* C6: poll_mission_status returns True only at the first poll that answers
\* "stage2", returns False at the first client error without another request,
\* and otherwise polls on; main opens the WebSocket for a mission only after
\* poll_mission_status returned True for that mission ID.
C6_PollThenConnect ==
    /\ \A i \in 1..(Len(pollLog) - 1) : Benign(pollLog[i])
    /\ pollLog # <<>> =>
           /\ pollRet = "True" <=> pollLog[Len(pollLog)] = "stage2"
           /\ pollRet = "False" <=> pollLog[Len(pollLog)] = "client_error"
           /\ Benign(pollLog[Len(pollLog)]) => (pollRet = "none" /\ mainPc = "poll")
    /\ mainPc = "poll" => (pollRet = "none" /\ polledId = mission_id)
    /\ (mainPc = "ws" /\ hwcPc = "idle") => pollLog # <<>>
    /\ (mainPc = "ws" \/ hwcPc # "idle") =>
           /\ pollRet = "True"
           /\ polledId = mission_id
           /\ uri = polledId

C6_Witness ==
    /\ mainPc = "ws"
    /\ hwcPc = "idle"
    /\ pollRet = "True"
    /\ pollLog = <<"stage1", PyNone, "stage2">>
    /\ uri = "m1"

\* everything put on the audio queue of the session, in order
Puts == taken \o audio_q
CountNone(items) == Cardinality({i \in 1..Len(items) : items[i].kind = "None"})
ShutdownBegun == hwcPc \in {"aexit", "finally", "join", "returned"}

C7_SentinelOnceAndJoined ==
    \* the sentinel is put exactly once, by the finally clause
    /\ CountNone(Puts) = (IF hwcPc \in {"join", "returned"} THEN 1 ELSE 0)
    \* no audio chunk is enqueued after the sentinel
    /\ \A i \in 1..Len(Puts) : Puts[i].kind = "None" => i = Len(Puts)
    \* the function returns with the player terminated and the queue drained
    /\ hwcPc = "returned" =>
           /\ playerPc = "done"
           /\ audio_q = <<>>
           /\ taken[Len(taken)].kind = "None"

\* C7: however the session ends, the None sentinel is put on the audio queue
\* exactly once and the player is joined before the function returns; with the
\* player thread scheduled fairly the function returns, the player has ended
\* and has taken every chunk enqueued; no chunk is enqueued after the sentinel.
C7_ShutdownJoinsPlayer ==
    /\ []C7_SentinelOnceAndJoined
    /\ (hwcPc = "finally" ~> hwcPc = "returned")

C7_Witness ==
    /\ hwcPc = "returned"
    /\ hwcRaised
    /\ senderPc = "raised"
    /\ receiverPc = "run"
    /\ Len(TakenChunks) = 2

C8_WaitsForBoth ==
    \* without a raise, shutdown begins only when both tasks have finished
    /\ (ShutdownBegun /\ senderPc \in {"run", "done"} /\ receiverPc \in {"run", "done"}) =>
           (senderPc = "done" /\ receiverPc = "done")
    \* the sender's exit leaves the receiver running and the session open
    /\ (senderPc = "done" /\ receiverPc = "run") => hwcPc = "gather"
    \* the server's close leaves the session waiting for the sender
    /\ (conn = "server_closed" /\ senderPc = "run" /\ receiverPc # "raised") =>
           hwcPc = "gather"
    \* "exit" in any letter case is never sent
    /\ \A i \in 1..Len(sent) : Lower(sent[i]) # "exit"

\* C8: the two tasks are joined by a wait for both: when neither raises,
\* shutdown begins only after both have finished; after "exit" (any case) no
\* further user_dialogue message is sent while the session keeps receiving,
\* and after the server's close the session waits for the sender.
C8_GatherWaitsForBoth ==
    /\ []C8_WaitsForBoth
    /\ [][(senderPc = "done" /\ senderPc' = "done") => sent' = sent]_vars

C8_Witness ==
    /\ hwcPc = "gather"
    /\ senderPc = "done"
    /\ receiverPc = "run"
    /\ conn = "open"
    /\ Len(sent) = 1
    /\ Len(Puts) = 2

\* C9: a successful create_mission answer without "_id" is reported as
\* "Error: Mission ID not found." and is not stored; the current mission is
\* stored only when the answer carries a mission ID.
C9_NoIdNotStored ==
    /\ [](mission_data_storage.has =>
              Get(mission_data_storage.current_mission, "_id") # PyNone)
    /\ [][(lastChoice' = "1" /\ rounds' # rounds /\ response'.status = "ok"
              /\ Get(response'.data, "_id") = PyNone) =>
                 (/\ printed' = "Error: Mission ID not found."
                  /\ mission_data_storage' = mission_data_storage)]_vars

\* C10: with a current mission stored, option 2 polls and connects with the
\* mission ID option 1 used for that mission.
C10_Option2SameId ==
    (lastChoice = "2" /\ mission_data_storage.has) =>
        /\ mission_id = Option1Id(mission_data_storage)
        /\ polledId = mission_id

====
